---- MODULE Spec2Model ----
(***************************************************************************)
(* screenpipe-vision core: the capture loop continuous_capture and the OCR *)
(* task process_ocr_task it spawns (src/screenpipe-vision/src/core.rs).    *)
(*                                                                         *)
(* Scores (f64 averages) are modelled in thousandths: 0.006 is 6, 1.0 is   *)
(* 1000.  An Option is a sequence of length 0 (None) or 1 (Some).  Images  *)
(* are named by the number of the loop iteration that captured them, and   *)
(* Instant::now() is the number of the current loop iteration.             *)
(***************************************************************************)
EXTENDS Integers, Sequences, FiniteSets, TLC

\* ---------------------------------------------------------------- bounds
\* Number of loop iterations explored when the frame source is unscripted.
MaxTicks == 3
\* Largest number of window images in one capture.
MaxWindows == 1
\* Capacity of the bounded result channel handed to continuous_capture.
SinkCap == 1

\* ------------------------------------------------------ program constants
\* core.rs:106  if current_average < 0.006
Threshold == 6
\* core.rs:100  1.0 when there is no previous image
ForcedAverage == 1000
\* core.rs:94   0.0 substituted when the scorer fails
ScorerErrAverage == 0
\* core.rs:64   let mut max_avg_value = 0.0
InitMaxAvg == 0

\* The OCR engines the task distinguishes (core.rs:206-221).  "Other" is any
\* variant the build has no arm for (the `_` arm).
Engines == {"Unstructured", "Tesseract", "Other"}

\* The f64 value NaN: every ordered comparison with it is false.
NaN == 0 - 1

\* Scorer results offered to the loop: Ok(avg) or Err.  The scorer
\* (compare_with_previous_image, crate::utils) is the specification's
\* score(previous, current): it returns an average, which as an f64 may be NaN,
\* and leaves max_average and max_avg_value as they are.
FreeAverages == {0, 5, 6, 50, NaN}
Ok(avg) == [ok |-> TRUE, avg |-> avg]
ScorerErr == [ok |-> FALSE, avg |-> 0]
ScorerResults == {Ok(a) : a \in FreeAverages} \cup {ScorerErr}

\* Scenario S4 of the specification: scorer outputs 0.01, 0.05, 0.03, 0.02.
S4Script == <<Ok(10), Ok(50), Ok(30), Ok(20)>>

VARIABLES
    \* ---- continuous_capture locals
    pc,                \* position of continuous_capture: "start", "panicked", or in the loop
    frame_counter,     \* core.rs:61
    previous_image,    \* core.rs:62  Option<image>
    max_average,       \* core.rs:63  Option<MaxAverageFrame>
    max_avg_value,     \* core.rs:64
    taken,             \* core.rs:132 max_avg_frame, between take() and spawn
    ocr_task_running,  \* core.rs:60  the AtomicBool
    ocr_engine,        \* parameter
    \* ---- spawned tasks and the result channel
    tasks,             \* every task spawned so far, in spawn order
    sink,              \* messages buffered in the channel
    rx_closed,         \* the receiving half was dropped
    \* ---- environment
    tick,              \* number of the current loop iteration (1-based)
    scripted,          \* TRUE when the frame source replays `script`
    script,            \* scorer results still to be replayed
    \* ---- history
    published,         \* every CaptureResult ever sent, in send order
    seen_max,          \* largest average of the non-skipped samples since the last
                       \* dispatch (a NaN sample has no order and is left out)
    first_capture,     \* Option: the image of the first successful capture
    quiet,             \* every scorer result so far was Ok(avg) with avg < 0.006
    skipped,           \* number of captures dropped by the redundancy gate
    scorer_failed,     \* the scorer call of the latest successful capture returned Err
    seen_first,        \* image of the earliest sample whose average is seen_max
    seen_last,         \* image of the latest sample whose average is seen_max
    stranded           \* successful captures since the last dispatch that found a
                       \* candidate buffered and no task in flight, and were skipped

vars == <<pc, frame_counter, previous_image, max_average, max_avg_value, taken,
          ocr_task_running, ocr_engine, tasks, sink, rx_closed, tick, scripted,
          script, published, seen_max, first_capture, quiet, skipped,
          scorer_failed, seen_first, seen_last, stranded>>

loopVars == <<pc, frame_counter, previous_image, max_average, max_avg_value, taken>>
envVars == <<tick, scripted, script, ocr_engine>>
histVars == <<seen_max, first_capture, quiet, skipped,
             scorer_failed, seen_first, seen_last, stranded>>

\* --------------------------------------------------------------- helpers
None == <<>>
Some(x) == <<x>>
IsSome(o) == Len(o) = 1
Unwrap(o) == o[1]

\* f64 comparisons: false when an operand is NaN.
FLt(a, b) == a # NaN /\ b # NaN /\ a < b
FGt(a, b) == a # NaN /\ b # NaN /\ a > b
FGe(a, b) == a # NaN /\ b # NaN /\ a >= b

\* Variant: a scorer error is replaced by 1.0.
ScoreOrDefault_Forced(r) == IF r.ok THEN r.avg ELSE ForcedAverage

\* core.rs:91-96  the scorer's result, with 0.0 substituted for an error
ScoreOrDefault(r) == IF r.ok THEN r.avg ELSE ScorerErrAverage

\* Variant: the scorer's average is used even when there is no previous image.
EffectiveAverage_Unforced(prev, avg) == avg

\* core.rs:99-103  no previous image forces the average to 1.0
EffectiveAverage(prev, avg) == IF prev = None THEN ForcedAverage ELSE avg

\* Variant: the redundancy gate compares with 0.005.
IsSkipped_LowerThreshold(avg) == FLt(avg, Threshold - 1)

\* core.rs:106  the redundancy gate
IsSkipped(avg) == FLt(avg, Threshold)

\* Variant: a sample that equals the best average replaces the candidate.
IsNewMax_OrEqual(avg, best) == FGe(avg, best)

\* Variant: every non-skipped sample replaces the buffered candidate.
IsNewMax_Latest(avg, best) == TRUE

\* core.rs:116  strict comparison with the best average so far
IsNewMax(avg, best) == FGt(avg, best)

\* Variant: the loop dispatches when the flag is set.
GateOpen_Inverted(running) == running

\* Variant: the loop dispatches without reading the flag.
GateOpen_Unchecked(running) == TRUE

\* core.rs:131  the dispatch gate as the loop reads it
GateOpen(running) == ~running

\* Variant: a skipped capture still becomes the previous image.
PreviousAfterSkip_Updated(prev, image) == Some(image)

\* core.rs:106-114  the skip path leaves previous_image as it is
PreviousAfterSkip(prev, image) == prev

\* Variant: the iteration ends without counting the frame.
IncrementCounter_Missing(c) == c

\* core.rs:172  frame_counter += 1 at the bottom of the loop
IncrementCounter(c) == c + 1

\* core.rs:66  get_monitor_by_id(monitor_id).await: Some(monitor) or None
MonitorLookups == {"some", "none"}

\* core.rs:66-69  unwrap() panics on None and the function ends before the
\* loop; with a monitor the loop is entered
PcAfterLookup(m) == IF m = "some" THEN "capture" ELSE "panicked"

\* Variant: a failed capture ends the loop.
PcAfterCaptureFail_Exit == "exited"

\* core.rs:75-78, 167-173  a failed capture is logged and the loop iterates
PcAfterCaptureFail == "capture"

\* Variant: the task data are stamped when the task is dispatched.
OcrTaskData_AtDispatch(f) ==
    [image |-> f.image, windows |-> f.windows,
     frame_number |-> frame_counter, timestamp |-> tick]

\* core.rs:133-139  the task data are copied from the buffered candidate
OcrTaskData(f) ==
    [image |-> f.image, windows |-> f.windows,
     frame_number |-> f.frame_number, timestamp |-> f.timestamp]

\* Variant: the frame counter is not reset at a dispatch.
CounterAfterDispatch_Kept == frame_counter

\* core.rs:163  frame_counter = 0
CounterAfterDispatch == 0

\* Variant: max_avg_value is not reset at a dispatch.
MaxAvgAfterDispatch_Kept == max_avg_value

\* core.rs:164  max_avg_value = 0.0
MaxAvgAfterDispatch == 0

\* Variant: the flag is cleared on the success path only.
FlagAfterTask_OkOnly(result) == result # "ok"

\* core.rs:160  the flag a task stores when process_ocr_task has returned
FlagAfterTask(result) == FALSE

\* core.rs:206-221  results one OCR call can have under an engine
OcrCallResults(engine) ==
    CASE engine = "Unstructured" -> {"ok", "err"}
      [] engine = "Tesseract"    -> {"ok"}
      [] OTHER                   -> {"err"}

\* core.rs:206-231  the task after one OCR call: the `?` and the `_` arm return
\* the error, otherwise the window's result is pushed
OcrStep(t, res) ==
    IF res = "ok"
    THEN [t EXCEPT !.ocr_done = @ + 1]
    ELSE [t EXCEPT !.pc = "clear", !.result = "ocr_err"]

\* Variant: the send error is dropped and the task returns Ok.
TaskResultOfSend_Swallowed(res) == "ok"

\* core.rs:253-268  what process_ocr_task returns after the send
TaskResultOfSend(res) == IF res = "ok" THEN "ok" ELSE "send_err"

\* core.rs:253  result_tx.send: fails when the receiver is gone, waits when full
SendResult(closed, len) ==
    IF closed THEN "err" ELSE IF len < SinkCap THEN "ok" ELSE "wait"

\* core.rs:246-251
CaptureResult(t) ==
    [image |-> t.image, frame_number |-> t.frame_number,
     timestamp |-> t.timestamp, windows |-> t.ocr_done]

\* core.rs:117-125
MaxAverageFrame(image, nwin, counter, now, avg) ==
    [image |-> image, windows |-> nwin, frame_number |-> counter,
     timestamp |-> now, average |-> avg]

LiveTasks == {i \in DOMAIN tasks : tasks[i].pc # "done"}

\* ------------------------------------------------------------------ Init
InitCommon ==
    /\ pc = "start"
    /\ frame_counter = 0
    /\ previous_image = None
    /\ max_average = None
    /\ max_avg_value = InitMaxAvg
    /\ taken = None
    /\ ocr_task_running = FALSE
    /\ ocr_engine \in Engines
    /\ tasks = <<>>
    /\ sink = <<>>
    /\ rx_closed = FALSE
    /\ tick = 1
    /\ published = <<>>
    /\ seen_max = 0
    /\ first_capture = None
    /\ quiet = TRUE
    /\ skipped = 0
    /\ scorer_failed = FALSE
    /\ seen_first = 0
    /\ seen_last = 0
    /\ stranded = 0

Init ==
    /\ InitCommon
    /\ scripted = FALSE
    /\ script = <<>>

InitS4 ==
    /\ InitCommon
    /\ scripted = TRUE
    /\ script = S4Script

\* ------------------------------------------------------- the capture loop
\* Scorer results the scorer can return on this iteration.  A scripted frame
\* source delivers one capture per script entry and fails once it has run dry.
NextScorerResults ==
    IF ~scripted THEN ScorerResults
    ELSE IF script = <<>> THEN {} ELSE {Head(script)}

\* Last loop iteration explored.
TickLimit == IF scripted THEN Len(S4Script) + MaxTicks ELSE MaxTicks

\* core.rs:66-69  look the monitor up; a missing monitor panics
GetMonitor ==
    /\ pc = "start"
    /\ \E m \in MonitorLookups : pc' = PcAfterLookup(m)
    /\ UNCHANGED <<frame_counter, previous_image, max_average, max_avg_value,
                   taken, ocr_task_running, tasks, sink, rx_closed, published>>
    /\ UNCHANGED envVars
    /\ UNCHANGED histVars

\* core.rs:71-79, 167-173  capture_screenshot fails: log, count the frame, sleep
CaptureFail ==
    /\ pc = "capture"
    /\ tick <= TickLimit
    /\ scripted => script = <<>>
    /\ frame_counter' = IncrementCounter(frame_counter)
    /\ tick' = tick + 1
    /\ pc' = PcAfterCaptureFail
    /\ UNCHANGED <<previous_image, max_average, max_avg_value, taken,
                   ocr_task_running, tasks, sink, rx_closed, published>>
    /\ UNCHANGED histVars
    /\ UNCHANGED <<scripted, script, ocr_engine>>

\* core.rs:71-129  capture succeeds; score, redundancy gate, election
CaptureOk ==
    /\ pc = "capture"
    /\ tick <= TickLimit
    /\ \E r \in NextScorerResults, nwin \in 0..MaxWindows :
        LET image == tick
            current_average == EffectiveAverage(previous_image, ScoreOrDefault(r))
        IN
        /\ quiet' = (quiet /\ r.ok /\ FLt(r.avg, Threshold))
        /\ scorer_failed' = ~r.ok
        /\ first_capture' = IF first_capture = None THEN Some(image) ELSE first_capture
        /\ script' = IF scripted THEN Tail(script) ELSE script
        /\ IF IsSkipped(current_average)
           THEN \* core.rs:106-114  count the frame, sleep, continue
                /\ frame_counter' = frame_counter + 1
                /\ tick' = tick + 1
                /\ skipped' = skipped + 1
                /\ previous_image' = PreviousAfterSkip(previous_image, image)
                /\ stranded' = IF IsSome(max_average) /\ LiveTasks = {}
                               THEN stranded + 1 ELSE stranded
                /\ UNCHANGED <<pc, max_average, max_avg_value,
                               seen_max, seen_first, seen_last>>
           ELSE \* core.rs:116-129
                /\ IF IsNewMax(current_average, max_avg_value)
                   THEN /\ max_average' = Some(MaxAverageFrame(image, nwin,
                                               frame_counter, tick, current_average))
                        /\ max_avg_value' = current_average
                   ELSE /\ UNCHANGED <<max_average, max_avg_value>>
                /\ previous_image' = Some(image)
                /\ seen_max' = IF FGt(current_average, seen_max)
                               THEN current_average ELSE seen_max
                /\ seen_first' = IF FGt(current_average, seen_max)
                                 THEN image ELSE seen_first
                /\ seen_last' = IF FGe(current_average, seen_max)
                                THEN image ELSE seen_last
                /\ pc' = "gate"
                /\ UNCHANGED <<frame_counter, tick, skipped, stranded>>
    /\ UNCHANGED <<taken, ocr_task_running, tasks, sink, rx_closed, published>>
    /\ UNCHANGED <<scripted, ocr_engine>>

\* core.rs:131-132  load the flag; take the best candidate when the gate is open.
\* With the gate closed or nothing buffered: core.rs:172-173, count and sleep.
Gate ==
    /\ pc = "gate"
    /\ IF GateOpen(ocr_task_running) /\ IsSome(max_average)
       THEN /\ taken' = max_average
            /\ max_average' = None
            /\ pc' = "spawn"
            /\ UNCHANGED <<frame_counter, tick>>
       ELSE /\ frame_counter' = IncrementCounter(frame_counter)
            /\ tick' = tick + 1
            /\ pc' = "capture"
            /\ UNCHANGED <<taken, max_average>>
    /\ UNCHANGED <<previous_image, max_avg_value, ocr_task_running,
                   tasks, sink, rx_closed, published>>
    /\ UNCHANGED <<scripted, script, ocr_engine>>
    /\ UNCHANGED histVars

\* core.rs:133-164  set the flag, spawn the task, reset the per-dispatch state
Spawn ==
    /\ pc = "spawn"
    /\ LET f == Unwrap(taken)
           d == OcrTaskData(f) IN
       tasks' = Append(tasks,
                    [image |-> d.image, windows |-> d.windows,
                     frame_number |-> d.frame_number, timestamp |-> d.timestamp,
                     average |-> f.average, seen_max |-> seen_max,
                     seen_first |-> seen_first, spawned |-> tick,
                     pc |-> "ocr", ocr_done |-> 0, result |-> "none", sent |-> 0])
    /\ ocr_task_running' = TRUE
    /\ taken' = None
    /\ frame_counter' = CounterAfterDispatch
    /\ max_avg_value' = MaxAvgAfterDispatch
    /\ seen_max' = 0
    /\ seen_first' = 0
    /\ seen_last' = 0
    /\ stranded' = 0
    /\ pc' = "bottom"
    /\ UNCHANGED <<previous_image, max_average, sink, rx_closed, published,
                   first_capture, quiet, skipped, scorer_failed>>
    /\ UNCHANGED envVars

\* core.rs:172-173  after a dispatch: frame_counter += 1, sleep
Bottom ==
    /\ pc = "bottom"
    /\ frame_counter' = IncrementCounter(frame_counter)
    /\ tick' = tick + 1
    /\ pc' = "capture"
    /\ UNCHANGED <<previous_image, max_average, max_avg_value, taken,
                   ocr_task_running, tasks, sink, rx_closed, published>>
    /\ UNCHANGED <<scripted, script, ocr_engine>>
    /\ UNCHANGED histVars

\* --------------------------------------------------------- the OCR task
\* core.rs:204-231  OCR of the next window image
OcrWindow(i) ==
    /\ tasks[i].pc = "ocr"
    /\ tasks[i].ocr_done < tasks[i].windows
    /\ \E res \in OcrCallResults(ocr_engine) :
        tasks' = [tasks EXCEPT ![i] = OcrStep(@, res)]
    /\ UNCHANGED <<ocr_task_running, sink, rx_closed, published>>
    /\ UNCHANGED loopVars
    /\ UNCHANGED envVars
    /\ UNCHANGED histVars

\* core.rs:233-251  all windows done: save hook, assemble the CaptureResult
Assemble(i) ==
    /\ tasks[i].pc = "ocr"
    /\ tasks[i].ocr_done = tasks[i].windows
    /\ tasks' = [tasks EXCEPT ![i].pc = "send"]
    /\ UNCHANGED <<ocr_task_running, sink, rx_closed, published>>
    /\ UNCHANGED loopVars
    /\ UNCHANGED envVars
    /\ UNCHANGED histVars

\* core.rs:253-268  result_tx.send(capture_result).await
Send(i) ==
    /\ tasks[i].pc = "send"
    /\ LET res == SendResult(rx_closed, Len(sink)) IN
       /\ res # "wait"
       /\ IF res = "ok"
          THEN /\ sink' = Append(sink, CaptureResult(tasks[i]))
               /\ published' = Append(published, CaptureResult(tasks[i]))
          ELSE UNCHANGED <<sink, published>>
       /\ tasks' = [tasks EXCEPT ![i] =
                     [@ EXCEPT !.pc = "clear", !.result = TaskResultOfSend(res),
                               !.sent = IF res = "ok" THEN @ + 1 ELSE @]]
    /\ UNCHANGED <<ocr_task_running, rx_closed>>
    /\ UNCHANGED loopVars
    /\ UNCHANGED envVars
    /\ UNCHANGED histVars

\* core.rs:157-160  log an error, store the flag; the task ends
Clear(i) ==
    /\ tasks[i].pc = "clear"
    /\ ocr_task_running' = FlagAfterTask(tasks[i].result)
    /\ tasks' = [tasks EXCEPT ![i].pc = "done"]
    /\ UNCHANGED <<sink, rx_closed, published>>
    /\ UNCHANGED loopVars
    /\ UNCHANGED envVars
    /\ UNCHANGED histVars

\* ------------------------------------------------- the downstream consumer
Recv ==
    /\ ~rx_closed
    /\ sink # <<>>
    /\ sink' = Tail(sink)
    /\ UNCHANGED <<ocr_task_running, tasks, rx_closed, published>>
    /\ UNCHANGED loopVars
    /\ UNCHANGED envVars
    /\ UNCHANGED histVars

CloseRx ==
    /\ ~rx_closed
    /\ rx_closed' = TRUE
    /\ UNCHANGED <<ocr_task_running, tasks, sink, published>>
    /\ UNCHANGED loopVars
    /\ UNCHANGED envVars
    /\ UNCHANGED histVars

\* ------------------------------------------------------------ behaviours
LoopNext == GetMonitor \/ CaptureFail \/ CaptureOk \/ Gate \/ Spawn \/ Bottom

TaskNext == \E i \in DOMAIN tasks : OcrWindow(i) \/ Assemble(i) \/ Send(i) \/ Clear(i)

Next ==
    \/ GetMonitor
    \/ CaptureFail
    \/ CaptureOk
    \/ Gate
    \/ Spawn
    \/ Bottom
    \/ \E i \in DOMAIN tasks : OcrWindow(i)
    \/ \E i \in DOMAIN tasks : Assemble(i)
    \/ \E i \in DOMAIN tasks : Send(i)
    \/ \E i \in DOMAIN tasks : Clear(i)
    \/ Recv
    \/ CloseRx

Spec == Init /\ [][Next]_vars

SpecS4 == InitS4 /\ [][Next]_vars

\* The runtime schedules the loop and every spawned task.
FairSpec == Init /\ [][Next]_vars /\ WF_vars(LoopNext) /\ WF_vars(TaskNext)

\* ================================================================ claims
FirstImage == Unwrap(first_capture)
LastTask == tasks[Len(tasks)]
TaskErrors == {"ocr_err", "send_err"}
\* The loop has finished the iteration that made the first successful capture.
FirstCaptureHandled ==
    /\ first_capture # None
    /\ tick > FirstImage \/ pc = "bottom"

\* C1 (single-flight): at most one spawned OCR task is executing in any state;
\* the flag is set whenever a task is executing, and the loop is about to spawn
\* only after it read the flag as false, with no task executing.
C1_SingleFlight ==
    /\ Cardinality(LiveTasks) <= 1
    /\ LiveTasks # {} => ocr_task_running
    /\ pc = "spawn" => ~ocr_task_running /\ LiveTasks = {}

\* A non-skipped tick reaches the gate with a candidate while a task is in flight.
C1_Witness ==
    /\ pc = "gate"
    /\ IsSome(max_average)
    /\ LiveTasks # {}

\* C2 (best election): the average of every dispatched candidate is the largest
\* average among the non-skipped samples observed since the previous dispatch,
\* the dispatching tick included.
C2_BestElection ==
    \A i \in DOMAIN tasks : tasks[i].average = tasks[i].seen_max

\* A dispatch just launched the candidate buffered on an earlier tick, although
\* the dispatching tick's own sample was not skipped.
C2_Witness ==
    /\ pc = "bottom"
    /\ Len(tasks) >= 2
    /\ LastTask.image < tick
    /\ LastTask.average = 50

\* C3 (first-frame dispatch): once the iteration of the first successful capture
\* is through, the first dispatch exists, carries that capture's image and has
\* the forced average 1.0, whatever the scorer returned.
C3_FirstFrameDispatch ==
    FirstCaptureHandled =>
        /\ Len(tasks) >= 1
        /\ tasks[1].image = FirstImage
        /\ tasks[1].average = ForcedAverage

\* The first capture follows a failed capture, the scorer returned an average
\* below the threshold for it, and it was just dispatched.
C3_Witness ==
    /\ quiet
    /\ pc = "bottom"
    /\ Len(tasks) = 1
    /\ FirstImage = tick
    /\ tick > 1

\* C4 (redundancy gate): while every scorer result has been below 0.006, there
\* is at most one dispatch, it is the first capture's, it exists once that
\* capture's iteration is through, and no later capture gets past the skip.
C4_RedundancyGate ==
    quiet =>
        /\ Len(tasks) <= 1
        /\ FirstCaptureHandled => Len(tasks) = 1 /\ tasks[1].image = FirstImage
        /\ pc \in {"gate", "spawn", "bottom"} => tick = FirstImage
        /\ \A i \in DOMAIN published : published[i].image = FirstImage

\* Two later captures were skipped after the first dispatch's task had ended.
C4_Witness ==
    /\ quiet
    /\ skipped >= 2
    /\ Len(tasks) = 1
    /\ LiveTasks = {}
    /\ Len(published) = 1

\* C5 (ordering): results are sent on the sink in the order their frames were
\* elected: an earlier position in the send order has an earlier election instant.
C5_Ordering ==
    \A i, j \in DOMAIN published :
        i < j => published[i].timestamp < published[j].timestamp

\* Two results were published.
C5_Witness ==
    /\ Len(published) >= 2
    /\ published[1].image # published[2].image

\* C6 (published iff the task succeeded): a task that returned Ok sent exactly
\* one result, a task that returned an error sent none, and nothing else is on
\* the sink's history.
C6_PublishedIffOk ==
    /\ \A i \in DOMAIN tasks :
          /\ tasks[i].result = "ok" => tasks[i].sent = 1
          /\ tasks[i].result \in TaskErrors => tasks[i].sent = 0
    /\ Len(published) = Cardinality({i \in DOMAIN tasks : tasks[i].result = "ok"})

\* One task succeeded and published its result, another ended with a send error.
C6_Witness ==
    /\ \E i \in DOMAIN tasks : tasks[i].result = "send_err"
    /\ \E i \in DOMAIN tasks : tasks[i].result = "ok"
    /\ Len(published) = 1

\* C7 (gate release): the flag is set only while a spawned task has not ended.
C7_GateRelease ==
    ocr_task_running => LiveTasks # {}

\* After a task that ended in an error, a later tick launched a new dispatch.
C7_Witness ==
    \E i, j \in DOMAIN tasks :
        /\ i < j
        /\ tasks[i].result = "ocr_err"
        /\ tasks[i].pc = "done"

\* C8 (reset after dispatch): the step that launches a dispatch leaves
\* max_avg_value 0.0, no buffered candidate and frame_counter 0; every other
\* step leaves frame_counter at least as large as it was.
C8_ResetAfterDispatch ==
    [][ /\ Len(tasks') > Len(tasks) =>
            /\ frame_counter' = 0
            /\ max_avg_value' = 0
            /\ max_average' = None
        /\ Len(tasks') = Len(tasks) => frame_counter' >= frame_counter ]_vars

\* A dispatch was just launched for a candidate elected when the counter was
\* positive.
C8_Witness ==
    /\ pc = "bottom"
    /\ LastTask.frame_number > 0
    /\ frame_counter = 0

\* Scenario S4: the script has been fed, the first dispatch's task was in flight
\* at every later tick (no second dispatch was possible), it has succeeded, and
\* nothing is running any more.
S4Done ==
    /\ scripted
    /\ script = <<>>
    /\ pc = "capture"
    /\ Len(tasks) = 1
    /\ tasks[1].pc = "done"
    /\ tasks[1].result = "ok"

\* C9 as stated: in scenario S4 exactly two results are published, the first
\* frame and then the frame whose score is 0.05.
C9_S4TwoResults ==
    S4Done =>
        /\ Len(published) = 2
        /\ published[1].image = 1
        /\ published[2].image = 2

\* C9 (amended): in scenario S4 exactly one result is published, the first
\* frame; the frame whose score is 0.05 is the buffered best candidate and
\* max_avg_value is 0.05.
C9_S4OneResultBestBuffered ==
    S4Done =>
        /\ Len(published) = 1
        /\ published[1].image = 1
        /\ IsSome(max_average)
        /\ Unwrap(max_average).image = 2
        /\ Unwrap(max_average).average = 50
        /\ max_avg_value = 50

\* Scenario S4 has run to its end and the loop has made a further iteration.
C9_Witness ==
    /\ S4Done
    /\ tick > Len(S4Script) + 1

\* C10 as stated: once the receiving side is closed, continuous_capture
\* eventually returns.  The loop at core.rs:69-174 has no break and no return,
\* so no action moves pc to a "returned" position.
C10_ReturnsAfterClose ==
    rx_closed ~> (pc = "returned")

\* continuous_capture has entered its loop (core.rs:69).
InLoop == pc \notin {"start", "panicked"}

\* C11 (no per-tick failure stops the loop): once the loop is entered it is
\* always at a position inside its body, and whenever another iteration is
\* within the explored range a step of the loop is enabled, whatever captures,
\* scorer calls and tasks have failed.
C11_LoopGoesOn ==
    InLoop =>
        /\ pc \in {"capture", "gate", "spawn", "bottom"}
        /\ tick <= TickLimit => ENABLED LoopNext

\* The first capture failed, the scorer failed on the second, the task
\* dispatched for it ended with a send error, and the loop is at the start of
\* a further iteration.
C11_Witness ==
    /\ first_capture # None
    /\ FirstImage = 2
    /\ scorer_failed
    /\ Len(tasks) = 1
    /\ tasks[1].result = "send_err"
    /\ tasks[1].pc = "done"
    /\ pc = "capture"
    /\ tick = 3

\* C12 (backpressure): a step of the loop taken while a task is in flight
\* launches no dispatch, does not consume the buffered candidate and does not
\* lower max_avg_value; the candidate changes only when a non-skipped sample of
\* the current tick with a higher average replaces it.  While a task is in
\* flight, also when it waits on a full sink, a step of the loop is enabled.
C12_Backpressure ==
    /\ [][ (LiveTasks # {} /\ loopVars' # loopVars) =>
            /\ Len(tasks') = Len(tasks)
            /\ pc' # "spawn"
            /\ IsSome(max_average) => IsSome(max_average')
            /\ max_avg_value' >= max_avg_value
            /\ max_average' # max_average =>
                  /\ pc = "capture"
                  /\ pc' = "gate"
                  /\ Unwrap(max_average').image = tick
                  /\ Unwrap(max_average').average > max_avg_value ]_vars
    /\ [](LiveTasks # {} /\ tick <= TickLimit => ENABLED LoopNext)

\* A task waits on the full sink while the loop has buffered a new candidate
\* and finished that iteration.
C12_Witness ==
    /\ \E i \in LiveTasks : tasks[i].pc = "send"
    /\ Len(sink) = SinkCap
    /\ ~rx_closed
    /\ IsSome(max_average)
    /\ pc = "capture"

\* C13 as stated: with an engine the build has no arm for, every task that has
\* left the OCR loop ended with the OCR error, made no OCR call and sent
\* nothing, and the sink's history is empty.
C13_UnsupportedEngine ==
    ocr_engine = "Other" =>
        /\ \A i \in DOMAIN tasks :
              tasks[i].pc # "ocr" =>
                  /\ tasks[i].result \in {"none", "ocr_err"}
                  /\ tasks[i].pc # "send"
                  /\ tasks[i].sent = 0
        /\ published = <<>>

\* The task that carries image `img`.
TaskOf(img) == CHOOSE i \in DOMAIN tasks : tasks[i].image = img
\* frame_counter at the start of iteration t when task i is the next dispatch:
\* the iterations since the previous dispatch, or since the start.
CounterAt(t, i) == IF i = 1 THEN t - 1 ELSE t - tasks[i - 1].spawned

\* C14 (election stamps): every published result carries the instant of the
\* iteration that captured and elected its frame, and the value frame_counter
\* had in that iteration, not those of the dispatching iteration.
C14_ElectionStamps ==
    \A k \in DOMAIN published :
        LET r == published[k]
            i == TaskOf(r.image) IN
        /\ \E j \in DOMAIN tasks : tasks[j].image = r.image
        /\ r.timestamp = r.image
        /\ r.frame_number = CounterAt(r.image, i)

\* A published result whose frame was dispatched on a later iteration than the
\* one that elected it.
C14_Witness ==
    \E k \in DOMAIN published :
        /\ tasks[TaskOf(published[k].image)].spawned > published[k].image
        /\ published[k].frame_number > 0

\* A successful capture whose scorer call returned Err.
ScorerFailStep ==
    /\ pc = "capture"
    /\ pc' = "gate" \/ skipped' = skipped + 1
    /\ scorer_failed'

\* C15 (scorer failure): a capture whose scorer call fails is skipped when a
\* previous image is present; with no previous image it is elected with the
\* average 1.0 in the same iteration, and the gate step that follows takes it
\* for dispatch.
C15_ScorerFailure ==
    [][ /\ ScorerFailStep =>
            IF previous_image # None
            THEN /\ skipped' = skipped + 1
                 /\ pc' = "capture"
                 /\ frame_counter' = frame_counter + 1
                 /\ UNCHANGED <<previous_image, max_average, max_avg_value, tasks>>
            ELSE /\ pc' = "gate"
                 /\ tick' = tick
                 /\ IsSome(max_average')
                 /\ Unwrap(max_average').image = tick
                 /\ Unwrap(max_average').average = ForcedAverage
                 /\ max_avg_value' = ForcedAverage
        /\ (scorer_failed /\ pc = "gate" /\ pc' # "gate") =>
            /\ pc' = "spawn"
            /\ Unwrap(taken').image = tick
            /\ Unwrap(taken').average = ForcedAverage ]_vars

\* The second capture's scorer call failed and the capture was skipped.
C15_Witness ==
    /\ scorer_failed
    /\ first_capture = Some(1)
    /\ previous_image = Some(1)
    /\ skipped = 1
    /\ tick = 3
    /\ pc = "capture"

\* C16 (tie-breaking): the buffered candidate, and every dispatched one, is the
\* earliest of the non-skipped samples with the largest average since the
\* previous dispatch.
C16_EarliestOfTies ==
    /\ \A i \in DOMAIN tasks : tasks[i].image = tasks[i].seen_first
    /\ (pc \in {"capture", "gate"} /\ IsSome(max_average)) =>
            Unwrap(max_average).image = seen_first

\* Two samples had the largest average and the earlier one is being dispatched.
C16_Witness ==
    /\ pc = "spawn"
    /\ seen_first < seen_last
    /\ Unwrap(taken).image = seen_first

\* An iteration that ends at the capture without a successful capture.
CaptureFailStep ==
    /\ pc = "capture"
    /\ tick' = tick + 1
    /\ skipped' = skipped

\* C17 (capture failure): an iteration whose capture fails changes nothing of
\* previous_image, the buffered candidate, max_avg_value, the flag and the
\* tasks, and adds exactly one to frame_counter.
C17_CaptureFailure ==
    [][ CaptureFailStep =>
            /\ frame_counter' = frame_counter + 1
            /\ pc' = "capture"
            /\ UNCHANGED <<previous_image, max_average, max_avg_value, taken,
                           ocr_task_running, tasks>> ]_vars

\* The third capture failed while a candidate elected on the second iteration
\* was buffered behind a task in flight.
C17_Witness ==
    /\ tick = 4
    /\ pc = "capture"
    /\ skipped = 0
    /\ first_capture = Some(1)
    /\ previous_image = Some(2)
    /\ IsSome(max_average)
    /\ frame_counter = 3
    /\ ocr_task_running

\* C18 (skipped tick): a skipped capture adds exactly one to frame_counter,
\* launches nothing and leaves previous_image, the buffered candidate and
\* max_avg_value unchanged; a capture that is not skipped makes its image the
\* previous image.
C18_SkippedTick ==
    [][ /\ skipped' = skipped + 1 =>
            /\ frame_counter' = frame_counter + 1
            /\ pc' = "capture"
            /\ UNCHANGED <<previous_image, max_average, max_avg_value, taken,
                           ocr_task_running, tasks>>
        /\ (pc = "capture" /\ pc' = "gate") => previous_image' = Some(tick) ]_vars

\* A capture was skipped while a candidate was buffered and no task was in
\* flight; the candidate is still buffered.
C18_Witness ==
    /\ stranded >= 1
    /\ IsSome(max_average)
    /\ ~ocr_task_running
    /\ pc = "capture"

\* C19 (candidate and best score agree): at the start of every iteration a
\* candidate is buffered exactly when max_avg_value is positive, and a buffered
\* candidate's average is max_avg_value and at least 0.006.
C19_CandidateIffPositive ==
    pc = "capture" =>
        /\ IsSome(max_average) <=> max_avg_value > 0
        /\ IsSome(max_average) =>
              /\ Unwrap(max_average).average = max_avg_value
              /\ max_avg_value >= Threshold

\* At the start of an iteration a candidate with the average 0.006 is buffered.
C19_Witness ==
    /\ pc = "capture"
    /\ IsSome(max_average)
    /\ Unwrap(max_average).average = Threshold

\* C20 as stated, in the form a finite run refutes: a candidate still buffered
\* when no task is in flight has not been passed over by a successful capture.
C20_NoStrandedBest ==
    (pc = "capture" /\ IsSome(max_average) /\ LiveTasks = {}) => stranded = 0

\* C20 (amended): an iteration that reaches the gate with the flag clear takes
\* the buffered candidate for dispatch; an iteration that is skipped or whose
\* capture fails launches nothing and leaves the candidate buffered; a sample
\* that is not skipped keeps the candidate or replaces it by one with a higher
\* average.
C20_DispatchedAtNextKeptTick ==
    [][ /\ (pc = "gate" /\ pc' # "gate" /\ ~ocr_task_running
                /\ IsSome(max_average)) =>
            /\ pc' = "spawn"
            /\ taken' = max_average
        /\ (pc = "capture" /\ tick' = tick + 1) =>
            /\ max_average' = max_average
            /\ tasks' = tasks
        /\ (pc = "capture" /\ pc' = "gate" /\ IsSome(max_average)) =>
            /\ IsSome(max_average')
            /\ \/ max_average' = max_average
               \/ Unwrap(max_average').average > Unwrap(max_average).average ]_vars

\* The first task has ended and the candidate buffered behind it on an earlier
\* iteration is being dispatched.
C20_Witness ==
    /\ pc = "spawn"
    /\ Len(tasks) = 1
    /\ tasks[1].pc = "done"
    /\ Unwrap(taken).image < tick
    /\ Unwrap(taken).image > tasks[1].spawned

====
